---- MODULE Spec2Model ----
(***************************************************************************)
(* The queue driver of electron-async-storage (drivers/queue.ts): a driver *)
(* decorator that buffers setItem/removeItem calls in a Map keyed by key   *)
(* and flushes them to an inner driver on a timer, on a size threshold or  *)
(* on request.  JavaScript runs one task at a time: every action below is  *)
(* one synchronous run of a handler, up to its next await.                 *)
(* The migration engine of the storage (migrate()) and its mount registry  *)
(* are modelled next to it, in variables of their own, from their          *)
(* specification.                                                          *)
(***************************************************************************)
EXTENDS Integers, Sequences, FiniteSets, TLC

(* ------------------------------ bounds -------------------------------- *)

\* Calls made on the queue driver in one behaviour (setItem, setItemRaw,
\* removeItem, flush, flushSync, dispose, the synchronous methods).
MaxCalls == 3
\* Date.now() advances at most this many times in one behaviour.
MaxTime == 1
\* The highest schema version, and the migrate() calls of one behaviour.
MaxVersion == 3
MaxRuns == 3
\* The mount() and unmount() calls of one behaviour.
MaxMounts == 4
\* The highest maxDepth keys are listed with.
MaxDepth == 2

(* ------------------------------ domains ------------------------------- *)

\* Keys are strings, modelled as sequences of characters.
Keys == {<<"a">>, <<"b">>}
\* Values handed to setItem.  0 stands for the falsy values of JavaScript
\* that are not null or undefined ("", 0, false); 1 and 2 are truthy.
Values == {0, 1, 2}
Null == -1
Undefined == -2
\* The callers of flush() that may be awaiting a result at the same time.
Callers == {1, 2}

Truthy(v) == v \notin {0, Null, Undefined}
\* a || b
JsOr(a, b) == IF Truthy(a) THEN a ELSE b
\* a ?? b
JsNullish(a, b) == IF a \in {Null, Undefined} THEN b ELSE a

Range(s) == {s[i] : i \in 1..Len(s)}

\* The options the model runs the driver with: a batchSize the queue reaches
\* with two keys, a maxQueueSize it never reaches and one it reaches before
\* batchSize, merging on and off.
OptionSpace == [batchSize : {2}, maxQueueSize : {1, 3}, mergeUpdates : BOOLEAN]

VARIABLES
  options,   \* QueueDriverOptions (without the inner driver)
  context,   \* QueueContext
  task,      \* the flush in flight (the async function of flushQueue)
  driver,    \* the inner driver
  now,       \* Date.now()
  callers,   \* the promises flush() returned to its callers
  disposal,  \* the dispose() call
  clearing,  \* the clear() call
  hist,      \* history of the behaviour, read by the properties only
  engine,    \* the migration engine of the storage and its persisted version
  storage,   \* the mount registry of the storage (StorageCTX)
  disk       \* the directory of an fs-lite driver (opts.base)

vars == <<options, context, task, driver, now, callers, disposal, clearing,
          hist, engine, storage, disk>>

(* --------------------------- the queue Map ---------------------------- *)

\* A Map keeps its entries in insertion order; Map.set on a key it holds
\* replaces the value in place.
QueueHas(queue, key) == \E i \in 1..Len(queue) : queue[i].key = key
QueueGet(queue, key) == queue[CHOOSE i \in 1..Len(queue) : queue[i].key = key]
\* A queue that keeps the earlier operation of a key next to the later one.
QueueSetAppend(queue, op) == Append(queue, op)

QueueSet(queue, op) ==
  IF QueueHas(queue, op.key)
  THEN [i \in 1..Len(queue) |-> IF queue[i].key = op.key THEN op ELSE queue[i]]
  ELSE Append(queue, op)
QueueKeys(queue) == {queue[i].key : i \in 1..Len(queue)}
QueueIds(queue) == {queue[i].id : i \in 1..Len(queue)}

\* Array.prototype.sort((a, b) => a.timestamp - b.timestamp): a stable sort.
RECURSIVE InsertByTimestamp(_, _)
InsertByTimestamp(sorted, op) ==
  IF sorted = <<>> THEN <<op>>
  ELSE IF sorted[Len(sorted)].timestamp <= op.timestamp THEN Append(sorted, op)
  ELSE Append(InsertByTimestamp(SubSeq(sorted, 1, Len(sorted) - 1), op),
              sorted[Len(sorted)])
RECURSIVE SortByTimestamp(_)
SortByTimestamp(ops) ==
  IF ops = <<>> THEN <<>>
  ELSE InsertByTimestamp(SortByTimestamp(SubSeq(ops, 1, Len(ops) - 1)),
                         ops[Len(ops)])

IsSetOperation(op) == op.type = "set" /\ op.value # Undefined
IsRemoveOperation(op) == op.type = "remove"

(* -------------------------- the inner driver -------------------------- *)

\* The synchronous methods a driver may have; each of them is optional.
SyncMethods ==
  {"hasItemSync", "getItemSync", "getItemRawSync", "setItemSync",
   "setItemRawSync", "removeItemSync", "getMetaSync", "getKeysSync",
   "clearSync"}

\* The store of the inner driver: Null for a key it does not hold.
DriverHasItem(d, key) == d.data[key] # Null
DriverGetItem(d, key) == JsNullish(d.data[key], Null)
\* The memory and fs-lite drivers list every key, whatever the base.
DriverGetKeys(d, base) == {k \in Keys : d.data[k] # Null}

\* What an operation leaves its key with: the value of a set, nothing
\* after a remove.
Effect(op) == IF op.type = "set" THEN op.value ELSE Null

\* The effect of one write on the store.
ApplyOp(data, op) ==
  IF op.type = "set" THEN [data EXCEPT ![op.key] = op.value]
  ELSE [data EXCEPT ![op.key] = Null]
RECURSIVE ApplyOps(_, _)
ApplyOps(data, ops) ==
  IF ops = <<>> THEN data ELSE ApplyOps(ApplyOp(data, Head(ops)), Tail(ops))

\* A call on the inner driver that has been made and has not completed.
Call(method, ops, no) == [method |-> method, ops |-> ops, flush |-> no]
\* The asynchronous write methods of a driver other than setItems; each of
\* them is optional.
WriteMethods == {"setItem", "setItemRaw", "removeItem"}

\* The method a flush writes a set with: setItemRaw for a raw operation when
\* the driver has it, else setItem; "none" when driver.setItem?.() finds no
\* method and makes no call.
SetMethod(d, op) ==
  IF op.isRaw /\ "setItemRaw" \in d.writes THEN "setItemRaw"
  ELSE IF "setItem" \in d.writes THEN "setItem"
  ELSE "none"
SetCall(d, op, no) == Call(SetMethod(d, op), <<op>>, no)
RemoveCall(op, no) == Call("removeItem", <<op>>, no)

\* The history counts the calls the inner driver receives for each operation.
Receive(received, ops) ==
  [id \in DOMAIN received |->
     received[id] + Cardinality({i \in 1..Len(ops) : ops[i].id = id})]

(* ------------------------- the flush machinery ------------------------ *)

\* The handlers change several parts of the state in one run; they are
\* written as functions of a record of those parts.
World ==
  [context |-> context, task |-> task, driver |-> driver,
   callers |-> callers, disposal |-> disposal, clearing |-> clearing,
   hist |-> hist]

IdleTask == [phase |-> "idle", no |-> 0, setOperations |-> <<>>,
             removeOperations |-> <<>>]

scheduleFlush(w) ==
  IF w.context.flushTimer \/ w.context.flushing \/ w.context.disposed
  THEN w
  ELSE [w EXCEPT !.context.flushTimer = TRUE]

\* A promise of flush number n settles: whoever awaits it is released.
Settle(w, n, outcome) ==
  [w EXCEPT
     !.callers = [c \in Callers |->
                    IF @[c].state = "pending" /\ @[c].promise = n
                    THEN [@[c] EXCEPT !.state = outcome] ELSE @[c]],
     !.disposal = IF @.state = "waiting" /\ @.promise = n
                  THEN [@ EXCEPT !.state = IF outcome = "resolved"
                                           THEN "ready" ELSE "rejected"]
                  ELSE @,
     !.clearing = IF @.state = "waiting" /\ @.promise = n
                  THEN [@ EXCEPT !.state = IF outcome = "resolved"
                                           THEN "ready" ELSE "rejected"]
                  ELSE @]

\* The finally callback without its scheduleFlush: operations queued while
\* the flush was in flight are left with no timer.
FinallyNoReschedule(w, outcome) ==
  Settle([w EXCEPT !.context.flushing = FALSE,
                   !.context.pendingFlush = 0,
                   !.task = IdleTask],
         w.task.no, outcome)

\* The resets of the finally callback made on success only, as in a then
\* callback: a rejected flush leaves flushing and pendingFlush set.
FinallyOnSuccessOnly(w, outcome) ==
  LET w1 == IF outcome = "resolved"
            THEN [w EXCEPT !.context.flushing = FALSE,
                           !.context.pendingFlush = 0,
                           !.task = IdleTask]
            ELSE [w EXCEPT !.task = IdleTask]
      w2 == IF Len(w1.context.queue) > 0 /\ ~w1.context.disposed
            THEN scheduleFlush(w1) ELSE w1
  IN  Settle(w2, w.task.no, outcome)

\* .finally(() => { ... }) of flushQueue, and the settling of flushPromise.
Finally(w, outcome) ==
  LET w1 == [w EXCEPT !.context.flushing = FALSE,
                      !.context.pendingFlush = 0,
                      !.task = IdleTask]
      w2 == IF Len(w1.context.queue) > 0 /\ ~w1.context.disposed
            THEN scheduleFlush(w1) ELSE w1
  IN  Settle(w2, w.task.no, outcome)

\* driver.setItems(setOperations.map(...)): one call for the batch.
IssueBatch(w) ==
  [w EXCEPT
     !.task.phase = "batch",
     !.driver.calls = @ \cup {Call("setItems", w.task.setOperations, w.task.no)},
     !.hist.received = Receive(@, w.task.setOperations)]

\* Promise.all(removeOperations.map(...)): one removeItem call each.
IssueRemoves(w) ==
  [w EXCEPT
     !.task.phase = "removes",
     !.driver.calls = @ \cup {RemoveCall(op, w.task.no) :
                                op \in Range(w.task.removeOperations)},
     !.hist.received = Receive(@, w.task.removeOperations)]

\* The flush after its sets are written: the removes, or the end.
AfterSets(w) ==
  IF Len(w.task.removeOperations) > 0 THEN IssueRemoves(w)
  ELSE Finally(w, "resolved")

\* Promise.all(setOperations.map(...)): one setItem or setItemRaw call for
\* each operation the driver has a method for.  With no call made there is
\* nothing to wait for and the flush goes on.
IssueSets(w) ==
  LET HasMethod(op) == SetMethod(w.driver, op) # "none"
      written == SelectSeq(w.task.setOperations, HasMethod)
      w1 == [w EXCEPT
               !.task.phase = "sets",
               !.driver.calls = @ \cup {SetCall(w.driver, op, w.task.no) :
                                          op \in Range(written)},
               !.hist.received = Receive(@, written)]
  IN  IF Len(written) > 0 THEN w1 ELSE AfterSets(w1)

\* flushQueue from "context.flushing = true" to its first await: the queue
\* is drained and the first calls on the inner driver are made.
StartFlush(w) ==
  LET operations == SortByTimestamp(w.context.queue)
      setOperations == SelectSeq(operations, IsSetOperation)
      removeOperations == SelectSeq(operations, IsRemoveOperation)
      n == w.hist.flushes + 1
      w1 == [w EXCEPT
               !.context.flushing = TRUE,
               !.context.queue = <<>>,
               !.context.pendingFlush = n,
               !.task = [phase |-> "start", no |-> n,
                         setOperations |-> setOperations,
                         removeOperations |-> removeOperations],
               !.hist.flushes = n]
  IN  IF Len(setOperations) > 0
      THEN IF /\ w.driver.setItems
              /\ Len(setOperations) > 1
              /\ \A i \in 1..Len(setOperations) : ~setOperations[i].isRaw
           THEN IssueBatch(w1)
           ELSE IssueSets(w1)
      ELSE AfterSets(w1)

\* flushQueue without the test of context.flushing, to show that the test is
\* what keeps a second flush from starting.
flushQueueUnguarded(w) ==
  IF w.context.disposed THEN w
  ELSE IF Len(w.context.queue) = 0 THEN w
  ELSE StartFlush(w)

flushQueue(w) ==
  IF w.context.disposed THEN w
  ELSE IF w.context.flushing THEN w
  ELSE IF Len(w.context.queue) = 0 THEN w
  ELSE StartFlush(w)

\* The promise flushQueue returns, by the number of the flush it settles
\* with; 0 for a promise that is resolved on return.
flushQueuePromise(w) ==
  IF w.context.disposed THEN 0
  ELSE IF w.context.flushing THEN w.context.pendingFlush
  ELSE IF Len(w.context.queue) = 0 THEN 0
  ELSE w.hist.flushes + 1

\* queueOperation that stores the operation whatever mergeUpdates says.
queueOperationAlwaysSet(w, operation) ==
  IF w.context.disposed THEN w
  ELSE
    LET w1 == [w EXCEPT !.context.queue = QueueSet(@, operation)]
        w2 == IF Len(w1.context.queue) >= options.batchSize
              THEN flushQueue([w1 EXCEPT !.context.flushTimer = FALSE])
              ELSE scheduleFlush(w1)
    IN  IF Len(w2.context.queue) >= options.maxQueueSize
        THEN flushQueue(w2) ELSE w2

\* queueOperation without the batchSize branch: the timer is the only trigger
\* below maxQueueSize.
\* queueOperation without the test of context.disposed.
queueOperationUnguarded(w, operation) ==
  LET w1 == IF options.mergeUpdates \/ ~QueueHas(w.context.queue, operation.key)
            THEN [w EXCEPT !.context.queue = QueueSet(@, operation)]
            ELSE w
      w2 == IF Len(w1.context.queue) >= options.batchSize
            THEN flushQueue([w1 EXCEPT !.context.flushTimer = FALSE])
            ELSE scheduleFlush(w1)
  IN  IF Len(w2.context.queue) >= options.maxQueueSize
      THEN flushQueue(w2) ELSE w2

queueOperationNoBatch(w, operation) ==
  IF w.context.disposed THEN w
  ELSE
    LET w1 == IF options.mergeUpdates \/ ~QueueHas(w.context.queue, operation.key)
              THEN [w EXCEPT !.context.queue = QueueSet(@, operation)]
              ELSE w
        w2 == scheduleFlush(w1)
    IN  IF Len(w2.context.queue) >= options.maxQueueSize
        THEN flushQueue(w2) ELSE w2

queueOperation(w, operation) ==
  IF w.context.disposed THEN w
  ELSE
    LET w1 == IF options.mergeUpdates \/ ~QueueHas(w.context.queue, operation.key)
              THEN [w EXCEPT !.context.queue = QueueSet(@, operation)]
              ELSE w
        w2 == IF Len(w1.context.queue) >= options.batchSize
              THEN flushQueue([w1 EXCEPT !.context.flushTimer = FALSE])
              ELSE scheduleFlush(w1)
    IN  IF Len(w2.context.queue) >= options.maxQueueSize
        THEN flushQueue(w2) ELSE w2

\* flushQueueSync without the test of context.flushing.
flushQueueSyncUnguarded(w) ==
  IF Len(w.context.queue) = 0 \/ w.context.disposed
  THEN w
  ELSE
    LET operations == SortByTimestamp(w.context.queue)
        isWrite(op) == IsSetOperation(op) \/ IsRemoveOperation(op)
        writes == SelectSeq(operations, isWrite)
    IN  [w EXCEPT
           !.context.flushTimer = FALSE,
           !.context.queue = <<>>,
           !.driver.data = ApplyOps(@, writes),
           !.hist.received = Receive(@, writes),
           !.hist.written = @ \cup QueueIds(writes)]

\* flushQueueSync: the drained operations are written one after the other
\* with the synchronous methods of the inner driver, in the sorted order.
flushQueueSync(w) ==
  IF w.context.flushing \/ Len(w.context.queue) = 0 \/ w.context.disposed
  THEN w
  ELSE
    LET operations == SortByTimestamp(w.context.queue)
        isWrite(op) ==
          \/ /\ IsSetOperation(op)
             /\ \/ op.isRaw /\ "setItemRawSync" \in w.driver.sync
                \/ "setItemSync" \in w.driver.sync
          \/ /\ ~IsSetOperation(op)
             /\ IsRemoveOperation(op) /\ "removeItemSync" \in w.driver.sync
        writes == SelectSeq(operations, isWrite)
        w1 == [w EXCEPT
                 !.context.flushTimer = FALSE,
                 !.context.queue = <<>>,
                 !.driver.data = ApplyOps(@, writes),
                 !.hist.received = Receive(@, writes),
                 !.hist.written = @ \cup QueueIds(writes)]
    IN  IF Len(w1.context.queue) > 0 /\ ~w1.context.disposed
        THEN scheduleFlush(w1) ELSE w1

\* The write methods flushQueueSync calls for the drained operations, in
\* the sorted order.
SyncWrites(w) ==
  LET isWrite(op) ==
        \/ /\ IsSetOperation(op)
           /\ \/ op.isRaw /\ "setItemRawSync" \in w.driver.sync
              \/ "setItemSync" \in w.driver.sync
        \/ /\ ~IsSetOperation(op)
           /\ IsRemoveOperation(op) /\ "removeItemSync" \in w.driver.sync
  IN  SelectSeq(SortByTimestamp(w.context.queue), isWrite)

\* flushQueueSync when write number n of its loop throws: the writes before
\* it have landed, the rest of the drained operations is not written, the
\* finally block runs and the error leaves flushQueueSync.
flushQueueSyncThrows(w, n) ==
  LET writes == SyncWrites(w)
      w1 == [w EXCEPT
               !.context.flushTimer = FALSE,
               !.context.flushing = TRUE,
               !.context.queue = <<>>,
               !.driver.data = ApplyOps(@, SubSeq(writes, 1, n - 1)),
               !.hist.received = Receive(@, SubSeq(writes, 1, n)),
               !.hist.written = @ \cup QueueIds(SubSeq(writes, 1, n - 1))]
      w2 == [w1 EXCEPT !.context.flushing = FALSE]
      w3 == IF Len(w2.context.queue) > 0 /\ ~w2.context.disposed
            THEN scheduleFlush(w2) ELSE w2
  IN  [w3 EXCEPT !.hist.errors = @ + 1]

\* key.startsWith(base)
StartsWith(key, base) ==
  /\ Len(base) <= Len(key)
  /\ SubSeq(key, 1, Len(base)) = base

(* --------------------------- the sync bypass -------------------------- *)

\* A synchronous method throws when the inner driver lacks its twin.
Throw(w) == [w EXCEPT !.hist.errors = @ + 1]

\* The queued sets of the key: a synchronous write of the key overtakes
\* them on its way to the inner driver.
QueuedSets(w, key) ==
  {w.context.queue[i].id : i \in {j \in 1..Len(w.context.queue) :
     w.context.queue[j].key = key /\ w.context.queue[j].type = "set"}}

\* setItemSync, setItemRawSync and removeItemSync call the inner driver
\* directly; the memory driver writes its Map before it returns.
\* A setItemSync that returns without a word when the inner driver has no
\* setItemSync, as setItem does when it has no setItem.
setItemSyncSilent(w, key, value) ==
  IF "setItemSync" \notin w.driver.sync THEN w
  ELSE [w EXCEPT !.driver.data[key] = value, !.hist.direct = @ + 1]

\* A setItemSync that goes through the queue like setItem.
setItemSyncQueued(w, key, value) ==
  IF "setItemSync" \notin w.driver.sync THEN Throw(w)
  ELSE queueOperation([w EXCEPT !.hist.direct = @ + 1],
                      [type |-> "set", key |-> key, value |-> value,
                       timestamp |-> 0, isRaw |-> FALSE, id |-> w.hist.calls])

setItemSync(w, key, value) ==
  IF "setItemSync" \notin w.driver.sync THEN Throw(w)
  ELSE [w EXCEPT !.driver.data[key] = value, !.hist.direct = @ + 1,
                 !.hist.overtaken = @ \cup QueuedSets(w, key)]

setItemRawSync(w, key, value) ==
  IF "setItemRawSync" \notin w.driver.sync THEN Throw(w)
  ELSE [w EXCEPT !.driver.data[key] = value, !.hist.direct = @ + 1,
                 !.hist.overtaken = @ \cup QueuedSets(w, key)]

removeItemSync(w, key) ==
  IF "removeItemSync" \notin w.driver.sync THEN Throw(w)
  ELSE [w EXCEPT !.driver.data[key] = Null, !.hist.direct = @ + 1,
                 !.hist.overtaken = @ \cup QueuedSets(w, key)]

\* clearSync drops the queued operations under the base and calls the
\* clearSync of the inner driver; that of the memory driver empties the Map
\* whatever the base.
clearSync(w, base) ==
  IF "clearSync" \notin w.driver.sync THEN Throw(w)
  ELSE [w EXCEPT
          !.context.queue = SelectSeq(@, LAMBDA op : ~StartsWith(op.key, base)),
          !.driver.data = [k \in Keys |-> Null],
          !.hist.direct = @ + 1]

(* ------------------------------- reads -------------------------------- *)

hasItem(key) ==
  IF QueueHas(context.queue, key)
  THEN QueueGet(context.queue, key).type = "set"
  ELSE DriverHasItem(driver, key)

getItem(key) ==
  IF QueueHas(context.queue, key)
  THEN LET queued == QueueGet(context.queue, key)
       IN  IF queued.type = "set" THEN JsOr(queued.value, Null) ELSE Null
  ELSE DriverGetItem(driver, key)

\* getItemRaw: the memory driver answers getItemRaw as it answers getItem.
getItemRaw(key) ==
  IF QueueHas(context.queue, key)
  THEN LET queued == QueueGet(context.queue, key)
       IN  IF queued.type = "set" THEN JsOr(queued.value, Null) ELSE Null
  ELSE DriverGetItem(driver, key)

\* getItems: the results of the queued keys are pushed while the list is
\* walked, those of the other keys are appended once the inner driver has
\* answered.
getItems(items) ==
  LET queuedItems == SelectSeq(items, LAMBDA k : QueueHas(context.queue, k))
      nonQueuedItems == SelectSeq(items, LAMBDA k : ~QueueHas(context.queue, k))
      results == [i \in 1..Len(queuedItems) |->
                    LET queued == QueueGet(context.queue, queuedItems[i])
                    IN  [key |-> queuedItems[i],
                         value |-> IF queued.type = "set"
                                   THEN JsOr(queued.value, Null) ELSE Null]]
      driverResults == [i \in 1..Len(nonQueuedItems) |->
                          [key |-> nonQueuedItems[i],
                           value |-> DriverGetItem(driver, nonQueuedItems[i])]]
  IN  results \o driverResults

\* The synchronous reads, over an inner driver that has the sync methods.
hasItemSync(key) ==
  IF QueueHas(context.queue, key)
  THEN QueueGet(context.queue, key).type = "set"
  ELSE DriverHasItem(driver, key)

getItemSync(key) ==
  IF QueueHas(context.queue, key)
  THEN LET queued == QueueGet(context.queue, key)
       IN  IF queued.type = "set" THEN JsOr(queued.value, Null) ELSE Null
  ELSE DriverGetItem(driver, key)

getItemRawSync(key) ==
  IF QueueHas(context.queue, key)
  THEN LET queued == QueueGet(context.queue, key)
       IN  IF queued.type = "set" THEN JsOr(queued.value, Null) ELSE Null
  ELSE DriverGetItem(driver, key)

getKeys(base) ==
  LET driverKeys == DriverGetKeys(driver, base)
      queuedKeys == {k \in QueueKeys(context.queue) :
                       StartsWith(k, base) /\ QueueGet(context.queue, k).type = "set"}
      removedKeys == {k \in QueueKeys(context.queue) :
                        StartsWith(k, base) /\ QueueGet(context.queue, k).type = "remove"}
  IN  (driverKeys \cup queuedKeys) \ removedKeys

\* getKeysSync, over an inner driver that has getKeysSync.
getKeysSync(base) ==
  LET driverKeys == DriverGetKeys(driver, base)
      queuedKeys == {k \in QueueKeys(context.queue) :
                       StartsWith(k, base) /\ QueueGet(context.queue, k).type = "set"}
      removedKeys == {k \in QueueKeys(context.queue) :
                        StartsWith(k, base) /\ QueueGet(context.queue, k).type = "remove"}
  IN  (driverKeys \cup queuedKeys) \ removedKeys

\* The bases keys are listed under: the default "" and one per key.
Bases == {<<>>} \cup Keys

\* The synchronous reads answer from the queue when the key is queued and
\* test the inner driver for the method only afterwards.
hasItemSyncThrows(key) ==
  ~QueueHas(context.queue, key) /\ "hasItemSync" \notin driver.sync
getItemSyncThrows(key) ==
  ~QueueHas(context.queue, key) /\ "getItemSync" \notin driver.sync
getItemRawSyncThrows(key) ==
  ~QueueHas(context.queue, key) /\ "getItemRawSync" \notin driver.sync
\* getMetaSync and getKeysSync test the inner driver first.
getMetaSyncThrows(key) == "getMetaSync" \notin driver.sync
getKeysSyncThrows(base) == "getKeysSync" \notin driver.sync

(* ------------------------ the migration engine ----------------------- *)

\* The engine advances the integer persisted under __storage_version__ by
\* running the migration functions registered for the versions in between.
\* What a run did is kept as a log of events.
Event(name, v, from, to) == [event |-> name, v |-> v, from |-> from, to |-> to]

\* No error, the error a migration function threw and the error of the
\* write of the version.
NoError == <<>>
MigrationError(v) == <<"migration", v>>
PersistError(v) == <<"persist", v>>

\* A storage nobody has migrated: no version key, no run.  registered holds
\* the versions a migration function is registered for; completed counts the
\* runs of each function that returned, that is, the changes it made to the
\* stored data.
FreshEngine(registered) ==
  [version |-> Null, registered |-> registered,
   pc |-> "idle", current |-> 0, target |-> 0, v |-> 0,
   log |-> <<>>, outcome |-> "none", error |-> NoError,
   completed |-> [v \in 1..MaxVersion |-> 0], runs |-> 0]

\* Step 1: the current version, 0 when the key is absent.
CurrentVersion(e) == IF e.version = Null THEN 0 ELSE e.version

\* A step 7 that reports the version of the failed step instead of the
\* version the run started from.
handleErrorIntermediate(e, error) ==
  [e EXCEPT !.log = Append(@, Event("onMigrationError", error[2], error[2] - 1, e.target)),
            !.pc = "idle", !.outcome = "rejected", !.error = error]

\* Step 7: onMigrationError(error, current, target), then the error is
\* raised again to the caller of migrate().
handleError(e, error) ==
  [e EXCEPT !.log = Append(@, Event("onMigrationError", error[2], e.current, e.target)),
            !.pc = "idle", !.outcome = "rejected", !.error = error]

\* A migrate() that returns only when the version is above the target.
migrateStrict(e, target) ==
  LET current == CurrentVersion(e)
      e1 == [e EXCEPT !.runs = @ + 1, !.current = current, !.target = target,
                      !.log = <<>>, !.error = NoError]
  IN  IF current > target
      THEN [e1 EXCEPT !.outcome = "resolved", !.v = 0]
      ELSE [e1 EXCEPT !.log = <<Event("beforeMigration", 0, current, target)>>,
                      !.pc = "loop", !.outcome = "pending", !.v = current + 1]

\* A migrate() that starts at version 1 whatever the persisted version.
migrateFromOne(e, target) ==
  LET current == CurrentVersion(e)
      e1 == [e EXCEPT !.runs = @ + 1, !.current = current, !.target = target,
                      !.log = <<>>, !.error = NoError]
  IN  IF current >= target
      THEN [e1 EXCEPT !.outcome = "resolved", !.v = 0]
      ELSE [e1 EXCEPT !.log = <<Event("beforeMigration", 0, current, target)>>,
                      !.pc = "loop", !.outcome = "pending", !.v = 1]

\* A migrate() without step 2: it runs its loop and persists the target
\* whatever the version it read.
migrateUnguarded(e, target) ==
  LET current == CurrentVersion(e)
      e1 == [e EXCEPT !.runs = @ + 1, !.current = current, !.target = target,
                      !.log = <<>>, !.error = NoError]
  IN  [e1 EXCEPT !.log = <<Event("beforeMigration", 0, current, target)>>,
                 !.pc = "loop", !.outcome = "pending", !.v = current + 1]

\* Steps 1 to 3: read the version, return when there is nothing to do, call
\* beforeMigration(current, target).
migrate(e, target) ==
  LET current == CurrentVersion(e)
      e1 == [e EXCEPT !.runs = @ + 1, !.current = current, !.target = target,
                      !.log = <<>>, !.error = NoError]
  IN  IF current >= target
      THEN [e1 EXCEPT !.outcome = "resolved", !.v = 0]
      ELSE [e1 EXCEPT !.log = <<Event("beforeMigration", 0, current, target)>>,
                      !.pc = "loop", !.outcome = "pending", !.v = current + 1]

\* Step 4: the function registered for v is invoked; a version without a
\* function is skipped.
invokeMigration(e) ==
  IF e.v \in e.registered
  THEN [e EXCEPT !.log = Append(@, Event("invoke", e.v, e.current, e.target)),
                 !.pc = "migration"]
  ELSE [e EXCEPT !.v = @ + 1]

\* The function of v returns (its promise resolves): on to v + 1.
migrationReturns(e) ==
  [e EXCEPT !.log = Append(@, Event("return", e.v, e.current, e.target)),
            !.completed[e.v] = @ + 1,
            !.pc = "loop", !.v = @ + 1]

\* The function of v throws.
migrationThrows(e) == handleError(e, MigrationError(e.v))

\* Steps 5 and 6 in the wrong order: afterMigration is called before the
\* target is persisted.
persistVersionHookFirst(e) ==
  [e EXCEPT !.version = e.target,
            !.log = @ \o <<Event("afterMigration", 0, e.current, e.target),
                           Event("persist", e.target, e.current, e.target)>>,
            !.pc = "idle", !.outcome = "resolved"]

\* A step 5 that writes back the version read in step 1.
persistVersionStale(e) ==
  [e EXCEPT !.version = e.current,
            !.log = @ \o <<Event("persist", e.current, e.current, e.target),
                           Event("afterMigration", 0, e.current, e.target)>>,
            !.pc = "idle", !.outcome = "resolved"]

\* Steps 5 and 6: the target is persisted, then afterMigration(current,
\* target) is called.
persistVersion(e) ==
  [e EXCEPT !.version = e.target,
            !.log = @ \o <<Event("persist", e.target, e.current, e.target),
                           Event("afterMigration", 0, e.current, e.target)>>,
            !.pc = "idle", !.outcome = "resolved"]

\* The write of the version fails.
persistFails(e) == handleError(e, PersistError(e.target))

(* ------------------------- the mount registry ------------------------ *)

\* normalizeKey: the query suffix is cut off, "/" and "\" become ":",
\* runs of ":" collapse to one and a leading or trailing ":" is dropped.
SplitQuery(key) ==
  IF \E i \in 1..Len(key) : key[i] = "?"
  THEN SubSeq(key, 1, (CHOOSE i \in 1..Len(key) :
                          /\ key[i] = "?"
                          /\ \A j \in 1..(i - 1) : key[j] # "?") - 1)
  ELSE key
ReplaceSeparators(key) ==
  [i \in 1..Len(key) |-> IF key[i] \in {"/", "\\"} THEN ":" ELSE key[i]]
RECURSIVE CollapseColons(_)
CollapseColons(key) ==
  IF Len(key) < 2 THEN key
  ELSE IF key[1] = ":" /\ key[2] = ":" THEN CollapseColons(Tail(key))
  ELSE <<key[1]>> \o CollapseColons(Tail(key))
TrimColons(key) ==
  LET front == IF key # <<>> /\ Head(key) = ":" THEN Tail(key) ELSE key
  IN  IF front # <<>> /\ front[Len(front)] = ":"
      THEN SubSeq(front, 1, Len(front) - 1) ELSE front
normalizeKey(key) ==
  TrimColons(CollapseColons(ReplaceSeparators(SplitQuery(key))))

\* normalizeBase: a non-empty base ends in the separator.
normalizeBaseKey(base) ==
  LET normal == normalizeKey(base)
  IN  IF normal = <<>> THEN <<>> ELSE Append(normal, ":")

\* The bases mount() and unmount() are called with, as the caller writes
\* them, and the bases they stand for.
MountInputs ==
  {<<>>, <<"c">>, <<"c", ":">>, <<"c", ":", "a">>, <<"c", "/", "a">>, <<"d">>}
MountBases == {normalizeBaseKey(base) : base \in MountInputs}
\* The keys that are resolved, normalized as the storage hands them over.
ResolveInputs ==
  {<<"c", ":", "a", ":", "v">>, <<"c", "/", "u">>, <<"c", ":", "a">>,
   <<"c">>, <<"c", "x", ":", "a", ":", "v">>, <<"d", ":", "c", ":", "a">>,
   <<"o", ":", "d", "?", "v">>}
ResolveKeys == {normalizeKey(key) : key \in ResolveInputs}

\* A base nothing is mounted at.
NoDriver == 0

\* mountpoints.sort((a, b) => b.length - a.length): a stable sort, longest
\* base first.
RECURSIVE InsertByLength(_, _)
InsertByLength(sorted, base) ==
  IF sorted = <<>> THEN <<base>>
  ELSE IF Len(sorted[Len(sorted)]) >= Len(base) THEN Append(sorted, base)
  ELSE Append(InsertByLength(SubSeq(sorted, 1, Len(sorted) - 1), base),
              sorted[Len(sorted)])
RECURSIVE SortByLength(_)
SortByLength(bases) ==
  IF bases = <<>> THEN <<>>
  ELSE InsertByLength(SortByLength(SubSeq(bases, 1, Len(bases) - 1)),
                      bases[Len(bases)])

\* createStorage({ driver }): the root mount and nothing else.
FreshStorage ==
  [mounts |-> [base \in MountBases |-> IF base = <<>> THEN 1 ELSE NoDriver],
   mountpoints |-> <<>>, drivers |-> 1, calls |-> 0, errors |-> 0]

\* A mount() that appends the base and leaves the list as it is.
mountUnsorted(s, base, mounted) ==
  LET b == normalizeBaseKey(base)
  IN  IF b # <<>> /\ s.mounts[b] # NoDriver
      THEN [s EXCEPT !.errors = @ + 1]
      ELSE [s EXCEPT !.mountpoints = IF b # <<>> THEN Append(@, b) ELSE @,
                     !.mounts[b] = mounted]

\* mount(base, driver): a second mount at a base other than the root
\* fails; the base is inserted and the list is sorted again.
mount(s, base, mounted) ==
  LET b == normalizeBaseKey(base)
  IN  IF b # <<>> /\ s.mounts[b] # NoDriver
      THEN [s EXCEPT !.errors = @ + 1]
      ELSE [s EXCEPT !.mountpoints = IF b # <<>>
                                     THEN SortByLength(Append(@, b)) ELSE @,
                     !.mounts[b] = mounted]

\* unmount(base): the mount is removed; nothing happens when there is none.
unmount(s, base) ==
  LET b == normalizeBaseKey(base)
  IN  IF s.mounts[b] = NoDriver THEN s
      ELSE [s EXCEPT !.mountpoints = SelectSeq(@, LAMBDA m : m # b),
                     !.mounts[b] = NoDriver]

\* resolve(key): the first base of the list that is a prefix of the key,
\* the root mount when there is none.
getMount(s, key) ==
  LET matches == {i \in 1..Len(s.mountpoints) : StartsWith(key, s.mountpoints[i])}
  IN  IF matches = {}
      THEN [base |-> <<>>, driver |-> s.mounts[<<>>]]
      ELSE LET first == CHOOSE i \in matches : \A j \in matches : i <= j
               base == s.mountpoints[first]
           IN  [base |-> base, driver |-> s.mounts[base]]

(* --------------------------- the fs-lite driver ----------------------- *)

\* The keys written to the driver.  A name is one character; a key is its
\* names with ":" in between.
FsKeys ==
  {<<"a">>, <<"b">>, <<"d">>, <<"a", ":", "b">>, <<"a", ":", "d">>,
   <<"b", ":", "c">>, <<"a", ":", "b", ":", "c">>, <<"a", ":", "d", ":", "c">>}
FsNames == {"a", "b", "c", "d"}
\* The bases keys are listed under.
FsBases == {<<>>, <<"a", ":">>, <<"a", ":", "b", ":">>}

\* r(key): join(opts.base, key.replace(/:/g, "/")), as the names from
\* opts.base down; join drops the "." of r(".").
RECURSIVE r(_)
r(key) ==
  IF key = <<>> THEN <<>>
  ELSE IF Head(key) \in {":", "."} THEN r(Tail(key))
  ELSE <<Head(key)>> \o r(Tail(key))

\* The directory opts.base: the paths of its files and of its directories.
EmptyDisk == [files |-> {}, dirs |-> {}]
\* dirname(path) and the directories above it.
Ancestors(path) == {SubSeq(path, 1, n) : n \in 1..(Len(path) - 1)}

\* writeFile and syncWriteFile: the directories above the file are made,
\* then the file is written.  The call fails, and nothing is written, when
\* one of them is a file or the path is a directory.
writeFile(d, path) ==
  IF Ancestors(path) \cap d.files # {} \/ path \in d.dirs THEN d
  ELSE [files |-> d.files \cup {path}, dirs |-> d.dirs \cup Ancestors(path)]

\* unlink and syncUnlink: the file goes, its directories stay.
unlink(d, path) == [d EXCEPT !.files = @ \ {path}]

\* readdirRecursive: the files of the directory, and those of its
\* directories while maxDepth is above 0, as the set of their paths
\* relative to dir.
RECURSIVE readdirRecursive(_, _)
readdirRecursive(dir, maxDepth) ==
  LET entries == {name \in FsNames :
                    Append(dir, name) \in disk.files \cup disk.dirs}
      listed(name) ==
        IF Append(dir, name) \in disk.dirs
        THEN IF maxDepth = Undefined \/ maxDepth > 0
             THEN {<<name, "/">> \o f :
                     f \in readdirRecursive(
                             Append(dir, name),
                             IF maxDepth = Undefined THEN Undefined
                             ELSE maxDepth - 1)}
             ELSE {}
        ELSE {<<name>>}
  IN  UNION {listed(name) : name \in entries}

\* syncReaddirRecursive: the same walk, one entry after the other.
RECURSIVE syncReaddirRecursive(_, _)
syncReaddirRecursive(dir, maxDepth) ==
  LET entries == {name \in FsNames :
                    Append(dir, name) \in disk.files \cup disk.dirs}
      listed(name) ==
        IF Append(dir, name) \in disk.dirs
        THEN IF maxDepth = Undefined \/ maxDepth > 0
             THEN {<<name, "/">> \o f :
                     f \in syncReaddirRecursive(
                             Append(dir, name),
                             IF maxDepth = Undefined THEN Undefined
                             ELSE maxDepth - 1)}
             ELSE {}
        ELSE {<<name>>}
  IN  UNION {listed(name) : name \in entries}

\* getKeys(_base, topts) and getKeysSync(_base, topts) of fs-lite: the
\* base is not used, the walk starts at opts.base.
fsGetKeys(base, maxDepth) == readdirRecursive(r(<<".">>), maxDepth)
fsGetKeysSync(base, maxDepth) == syncReaddirRecursive(r(<<".">>), maxDepth)

(* ------------------------------ actions ------------------------------- *)

Install(w) ==
  /\ context' = w.context
  /\ task' = w.task
  /\ driver' = w.driver
  /\ callers' = w.callers
  /\ disposal' = w.disposal
  /\ clearing' = w.clearing
  /\ hist' = w.hist
  /\ engine' = engine
  /\ storage' = storage
  /\ disk' = disk

\* No clear() call has been made.
IdleClear == [state |-> "idle", promise |-> 0, base |-> <<>>, at |-> 0]

\* The state after queueDriver({ driver, ... }) has returned, over an inner
\* driver with one of the given sets of synchronous methods, with or
\* without setItems, with or without clear, with one of the given sets of
\* asynchronous write methods.
QueueWith(syncs, batches, clears, writes) ==
  /\ context = [queue |-> <<>>, flushTimer |-> FALSE, flushing |-> FALSE,
                disposed |-> FALSE, pendingFlush |-> 0]
  /\ task = IdleTask
  /\ driver \in [data : {[k \in Keys |-> Null]}, setItems : batches,
                 clear : clears, sync : syncs, writes : writes, calls : {{}},
                 disposed : {FALSE}]
  /\ now = 0
  /\ callers = [c \in Callers |-> [state |-> "idle", promise |-> 0, snap |-> {}]]
  /\ disposal = [state |-> "idle", promise |-> 0]
  /\ clearing = IdleClear
  /\ hist = [calls |-> 0, flushes |-> 0,
             received |-> [id \in 1..MaxCalls |-> 0],
             written |-> {}, merged |-> {}, direct |-> 0, errors |-> 0,
             last |-> [k \in Keys |-> Null], overtaken |-> {}]

\* The same over an inner driver that has setItem, setItemRaw and
\* removeItem, as the built-in drivers have.
QueueOver(syncs, batches, clears) ==
  QueueWith(syncs, batches, clears, {WriteMethods})

\* The same over an inner driver that has clear, as the memory driver and
\* fs-lite have.
QueueConstructed(syncs, batches) == QueueOver(syncs, batches, {TRUE})

\* The queue driver over the memory driver; migrate() is not called.
Constructed ==
  /\ QueueConstructed({SyncMethods}, BOOLEAN)
  /\ engine = FreshEngine({})
  /\ storage = FreshStorage
  /\ disk = EmptyDisk

Init ==
  /\ options \in OptionSpace
  /\ Constructed

\* The guard of setItem, setItemRaw and removeItem on the methods of the
\* inner driver: without them the call returns with nothing done.
Accepted(d, type, isRaw) ==
  IF type = "remove" THEN "removeItem" \in d.writes
  ELSE IF isRaw THEN "setItem" \in d.writes \/ "setItemRaw" \in d.writes
  ELSE "setItem" \in d.writes

\* setItem, setItemRaw and removeItem build the operation, stamped with
\* Date.now(), and hand it to queueOperation.
Enqueue(type, key, value, isRaw) ==
  /\ Accepted(driver, type, isRaw)
  /\ hist.calls < MaxCalls
  /\ \E t \in {now, now + 1} :
       /\ t <= MaxTime
       /\ now' = t
       /\ LET id == hist.calls + 1
              operation == [type |-> type, key |-> key, value |-> value,
                            timestamp |-> t, isRaw |-> isRaw, id |-> id]
              replaced == IF /\ ~context.disposed
                             /\ options.mergeUpdates
                             /\ QueueHas(context.queue, key)
                          THEN {QueueGet(context.queue, key).id} ELSE {}
              stored == /\ ~context.disposed
                        /\ options.mergeUpdates \/ ~QueueHas(context.queue, key)
              w == [World EXCEPT !.hist.calls = id,
                                 !.hist.merged = @ \cup replaced,
                                 !.hist.last[key] =
                                    IF stored THEN Effect(operation) ELSE @]
          IN  Install(queueOperation(w, operation))
  /\ UNCHANGED options

SetItem(key, value) == Enqueue("set", key, value, FALSE)
SetItemRaw(key, value) == Enqueue("set", key, value, TRUE)
RemoveItem(key) == Enqueue("remove", key, Undefined, FALSE)

\* setItems: one queueOperation per item, in the order of the list.  The
\* loop is synchronous; its items carry the stamp of the call.
RECURSIVE setItems(_, _, _)
setItems(w, items, t) ==
  IF items = <<>> THEN w
  ELSE LET item == Head(items)
           id == w.hist.calls + 1
           operation == [type |-> "set", key |-> item.key, value |-> item.value,
                         timestamp |-> t, isRaw |-> FALSE, id |-> id]
           replaced == IF /\ ~w.context.disposed
                          /\ options.mergeUpdates
                          /\ QueueHas(w.context.queue, item.key)
                       THEN {QueueGet(w.context.queue, item.key).id} ELSE {}
           stored == /\ ~w.context.disposed
                     /\ options.mergeUpdates \/ ~QueueHas(w.context.queue, item.key)
           w1 == [w EXCEPT !.hist.calls = id, !.hist.merged = @ \cup replaced,
                           !.hist.last[item.key] =
                              IF stored THEN Effect(operation) ELSE @]
       IN  setItems(queueOperation(w1, operation), Tail(items), t)

SetItems(items) ==
  /\ "setItem" \in driver.writes \/ driver.setItems
  /\ hist.calls + Len(items) <= MaxCalls
  /\ \E t \in {now, now + 1} :
       /\ t <= MaxTime
       /\ now' = t
       /\ Install(setItems(World, items, t))
  /\ UNCHANGED options

\* The lists setItems is called with.
ItemLists ==
  {<<[key |-> <<"a">>, value |-> 1], [key |-> <<"b">>, value |-> 2]>>,
   <<[key |-> <<"b">>, value |-> 0]>>}

\* The setTimeout callback of scheduleFlush.  A timer callback is a task of
\* its own: it does not run between the settling of the promise dispose()
\* awaits and the continuation of dispose(), which is a microtask.
TimerFire ==
  /\ context.flushTimer
  /\ disposal.state # "ready"
  /\ clearing.state # "ready"
  /\ Install(flushQueue([World EXCEPT !.context.flushTimer = FALSE]))
  /\ UNCHANGED <<options, now>>

\* flush(): the caller keeps the promise flushQueue returns.
Flush(c) ==
  /\ hist.calls < MaxCalls
  /\ callers[c].state = "idle"
  /\ \A b \in Callers : b < c => callers[b].state # "idle"
  /\ LET p == flushQueuePromise(World)
         w == flushQueue([World EXCEPT !.hist.calls = @ + 1])
     IN  Install([w EXCEPT !.callers[c] =
                    [state |-> IF p = 0 THEN "resolved" ELSE "pending",
                     promise |-> p, snap |-> QueueIds(context.queue)]])
  /\ UNCHANGED <<options, now>>

FlushSync ==
  /\ hist.calls < MaxCalls
  /\ Install(flushQueueSync([World EXCEPT !.hist.calls = @ + 1]))
  /\ UNCHANGED <<options, now>>

\* The synchronous writes and clearSync.
SetItemSync(key, value) ==
  /\ hist.calls < MaxCalls
  /\ Install(setItemSync([World EXCEPT !.hist.calls = @ + 1], key, value))
  /\ UNCHANGED <<options, now>>

SetItemRawSync(key, value) ==
  /\ hist.calls < MaxCalls
  /\ Install(setItemRawSync([World EXCEPT !.hist.calls = @ + 1], key, value))
  /\ UNCHANGED <<options, now>>

RemoveItemSync(key) ==
  /\ hist.calls < MaxCalls
  /\ Install(removeItemSync([World EXCEPT !.hist.calls = @ + 1], key))
  /\ UNCHANGED <<options, now>>

ClearSync(base) ==
  /\ hist.calls < MaxCalls
  /\ Install(clearSync([World EXCEPT !.hist.calls = @ + 1], base))
  /\ UNCHANGED <<options, now>>

\* clear(base) up to its first await: "await flushQueue()" over an inner
\* driver that has clear, "await driver.getKeys(base, opts)" over one that
\* has not.
ClearCall(base) ==
  /\ hist.calls < MaxCalls
  /\ clearing.state = "idle"
  /\ LET w0 == [World EXCEPT !.hist.calls = @ + 1]
         p == IF driver.clear THEN flushQueuePromise(w0) ELSE 0
         w == IF driver.clear THEN flushQueue(w0) ELSE w0
     IN  Install([w EXCEPT !.clearing =
                    [state |-> IF p = 0 THEN "ready" ELSE "waiting",
                     promise |-> p, base |-> base, at |-> hist.calls + 1]])
  /\ UNCHANGED <<options, now>>

\* clear(base) after the await: driver.clear(base, opts), or removeItem for
\* each key the inner driver has listed.  The clear of the memory driver
\* and of fs-lite empties the store whatever the base, and their getKeys
\* lists every key.  The calls are taken to complete at once.
ClearResume ==
  /\ clearing.state = "ready"
  /\ LET keys == DriverGetKeys(driver, clearing.base)
     IN  Install([World EXCEPT
                    !.driver.data = IF driver.clear
                                    THEN [k \in Keys |-> Null]
                                    ELSE [k \in Keys |->
                                            IF k \in keys THEN Null ELSE @[k]],
                    !.clearing.state = "done"])
  /\ UNCHANGED <<options, now>>

\* A call on the inner driver completes: its writes are in the store.  The
\* flush that awaits the call goes on when it was the last one it awaited.
DriverResolve(call) ==
  /\ call \in driver.calls
  /\ LET w == [World EXCEPT
                 !.driver.calls = @ \ {call},
                 !.driver.data = ApplyOps(@, call.ops),
                 !.hist.written = @ \cup QueueIds(call.ops)]
         awaited == call.flush = task.no
         lastOne == \A other \in w.driver.calls : other.flush # call.flush
     IN  Install(IF awaited /\ lastOne
                 THEN IF task.phase \in {"batch", "sets"}
                      THEN AfterSets(w) ELSE Finally(w, "resolved")
                 ELSE w)
  /\ UNCHANGED <<options, now>>

\* A failing call without the catch around setItems: the failure of the
\* batch call ends the flush like any other.
DriverRejectNoFallback(call) ==
  /\ call \in driver.calls
  /\ LET w == [World EXCEPT !.driver.calls = @ \ {call}]
     IN  Install(IF call.flush = task.no THEN Finally(w, "rejected") ELSE w)
  /\ UNCHANGED <<options, now>>

\* A call on the inner driver fails.  A failed setItems is caught and the
\* sets are written one by one; any other failure rejects Promise.all, and
\* with it the flush, at once: the calls still running are awaited by nobody.
DriverReject(call) ==
  /\ call \in driver.calls
  /\ LET w == [World EXCEPT !.driver.calls = @ \ {call}]
     IN  Install(IF call.flush = task.no
                 THEN IF task.phase = "batch"
                      THEN IssueSets(w) ELSE Finally(w, "rejected")
                 ELSE w)
  /\ UNCHANGED <<options, now>>

\* dispose() up to "await flushQueue()".
DisposeCall ==
  /\ hist.calls < MaxCalls
  /\ disposal.state = "idle"
  /\ LET w0 == [World EXCEPT !.context.flushTimer = FALSE, !.hist.calls = @ + 1]
         p == flushQueuePromise(w0)
         w == flushQueue(w0)
     IN  Install([w EXCEPT !.disposal =
                    [state |-> IF p = 0 THEN "ready" ELSE "waiting",
                     promise |-> p]])
  /\ UNCHANGED <<options, now>>

\* dispose() after the await: the context is marked and the dispose hook of
\* the inner driver is called.  The store is left as it is, as that of a
\* file-system driver; the memory driver empties its Map in the hook.
DisposeResume ==
  /\ disposal.state = "ready"
  /\ Install([World EXCEPT !.context.disposed = TRUE,
                           !.driver.disposed = TRUE,
                           !.disposal.state = "done"])
  /\ UNCHANGED <<options, now>>

Next ==
  \/ \E k \in Keys, v \in Values : SetItem(k, v)
  \/ \E k \in Keys : RemoveItem(k)
  \/ TimerFire
  \/ \E c \in Callers : Flush(c)
  \/ FlushSync
  \/ \E call \in driver.calls : DriverResolve(call)
  \/ DisposeCall
  \/ DisposeResume

\* The queue driver over an inner driver whose calls succeed.
Spec == Init /\ [][Next]_vars

\* The driver constructed with mergeUpdates enabled, and with it disabled.
InitMerge == options \in {o \in OptionSpace : o.mergeUpdates} /\ Constructed
SpecMerge == InitMerge /\ [][Next]_vars
InitNoMerge == options \in {o \in OptionSpace : ~o.mergeUpdates} /\ Constructed
SpecNoMerge == InitNoMerge /\ [][Next]_vars

\* The driver under fair scheduling: the calls on the inner driver complete,
\* the timer callback runs and the continuation of dispose() runs.  What is
\* flushed when does not depend on the values, so one value is written.
NextLive ==
  \/ \E k \in Keys : SetItem(k, 1)
  \/ \E k \in Keys : RemoveItem(k)
  \/ TimerFire
  \/ \E c \in Callers : Flush(c)
  \/ FlushSync
  \/ \E call \in driver.calls : DriverResolve(call)
  \/ DisposeCall
  \/ DisposeResume

Fairness ==
  /\ WF_vars(TimerFire)
  /\ WF_vars(\E call \in driver.calls : DriverResolve(call))
  /\ WF_vars(DisposeResume)

SpecLive == Init /\ [][NextLive]_vars /\ Fairness

\* The queue driver over an inner driver whose calls may fail.
NextFaulty ==
  \/ Next
  \/ \E call \in driver.calls : DriverReject(call)

SpecFaulty == Init /\ [][NextFaulty]_vars

\* flushSync() when a synchronous write of the inner driver throws.
FlushSyncThrows ==
  /\ hist.calls < MaxCalls
  /\ ~context.flushing /\ Len(context.queue) > 0 /\ ~context.disposed
  /\ \E n \in 1..Len(SyncWrites(World)) :
       Install(flushQueueSyncThrows([World EXCEPT !.hist.calls = @ + 1], n))
  /\ UNCHANGED <<options, now>>

\* The queue driver over an inner driver whose calls may fail, the
\* synchronous ones as well.
NextFailing ==
  \/ NextFaulty
  \/ FlushSyncThrows

SpecFailing == Init /\ [][NextFailing]_vars

\* The queue driver with every call that enqueues: setItem, setItems,
\* setItemRaw and removeItem.
NextWrites ==
  \/ Next
  \/ \E k \in Keys : SetItemRaw(k, 1)
  \/ \E items \in ItemLists : SetItems(items)

SpecWrites == Init /\ [][NextWrites]_vars

\* The inner drivers of the sync path: one with every synchronous method
\* (memory, fs-lite), one with none, one with the reads only and one with
\* setItemSync and removeItemSync only.
SyncCapabilities ==
  {SyncMethods, {},
   {"hasItemSync", "getItemSync", "getItemRawSync", "getMetaSync", "getKeysSync"},
   {"setItemSync", "removeItemSync"}}

InitSync ==
  /\ options \in OptionSpace
  /\ QueueConstructed(SyncCapabilities, {FALSE})
  /\ engine = FreshEngine({})
  /\ storage = FreshStorage
  /\ disk = EmptyDisk

\* The queue driver with its synchronous methods next to the async ones.
NextSync ==
  \/ \E k \in Keys : SetItem(k, 1)
  \/ \E k \in Keys : RemoveItem(k)
  \/ TimerFire
  \/ FlushSync
  \/ \E call \in driver.calls : DriverResolve(call)
  \/ \E k \in Keys : SetItemSync(k, 2)
  \/ \E k \in Keys : SetItemRawSync(k, 2)
  \/ \E k \in Keys : RemoveItemSync(k)
  \/ \E base \in Bases : ClearSync(base)
  \/ DisposeCall
  \/ DisposeResume

SpecSync == InitSync /\ [][NextSync]_vars

\* The queue driver with clear() and clearSync(), over an inner driver with
\* and without clear.
InitClear ==
  /\ options \in OptionSpace
  /\ QueueOver({SyncMethods}, {FALSE}, BOOLEAN)
  /\ engine = FreshEngine({})
  /\ storage = FreshStorage
  /\ disk = EmptyDisk

NextClear ==
  \/ \E k \in Keys : SetItem(k, 1)
  \/ \E k \in Keys : RemoveItem(k)
  \/ TimerFire
  \/ FlushSync
  \/ \E call \in driver.calls : DriverResolve(call)
  \/ \E base \in Bases : ClearCall(base)
  \/ ClearResume
  \/ \E base \in Bases : ClearSync(base)

SpecClear == InitClear /\ [][NextClear]_vars

\* The queue driver over inner drivers that lack some of the optional write
\* methods: one with every method, one with setItem and removeItem, one with
\* setItemRaw and removeItem, one whose only way to write is setItems.  The
\* calls of the inner driver succeed; setItem is also called with undefined.
OptionalWrites ==
  {WriteMethods, {"setItem", "removeItem"}, {"setItemRaw", "removeItem"},
   {"removeItem"}}

InitOptional ==
  /\ options \in OptionSpace
  /\ QueueWith({SyncMethods}, BOOLEAN, {TRUE}, OptionalWrites)
  /\ engine = FreshEngine({})
  /\ storage = FreshStorage
  /\ disk = EmptyDisk

NextOptional ==
  \/ \E k \in Keys, v \in {1, Undefined} : SetItem(k, v)
  \/ \E k \in Keys : SetItemRaw(k, 2)
  \/ \E items \in ItemLists : SetItems(items)
  \/ \E k \in Keys : RemoveItem(k)
  \/ TimerFire
  \/ \E call \in driver.calls : DriverResolve(call)

SpecOptional == InitOptional /\ [][NextOptional]_vars

\* The variables of the queue driver.
queueVars ==
  <<options, context, task, driver, now, callers, disposal, clearing, hist>>

MigrateCall(target) ==
  /\ engine.pc = "idle"
  /\ engine.runs < MaxRuns
  /\ engine' = migrate(engine, target)
  /\ UNCHANGED <<queueVars, storage, disk>>

InvokeMigration ==
  /\ engine.pc = "loop"
  /\ engine.v <= engine.target
  /\ engine' = invokeMigration(engine)
  /\ UNCHANGED <<queueVars, storage, disk>>

MigrationReturns ==
  /\ engine.pc = "migration"
  /\ engine' = migrationReturns(engine)
  /\ UNCHANGED <<queueVars, storage, disk>>

MigrationThrows ==
  /\ engine.pc = "migration"
  /\ engine' = migrationThrows(engine)
  /\ UNCHANGED <<queueVars, storage, disk>>

PersistVersion ==
  /\ engine.pc = "loop"
  /\ engine.v > engine.target
  /\ engine' = persistVersion(engine)
  /\ UNCHANGED <<queueVars, storage, disk>>

PersistFails ==
  /\ engine.pc = "loop"
  /\ engine.v > engine.target
  /\ engine' = persistFails(engine)
  /\ UNCHANGED <<queueVars, storage, disk>>

\* A storage created with any set of migration functions; migrate() is
\* called with any target version (the storage may be created anew with
\* another version option over the same data).
InitMigrate ==
  /\ options = [batchSize |-> 2, maxQueueSize |-> 3, mergeUpdates |-> TRUE]
  /\ QueueConstructed({SyncMethods}, {FALSE})
  /\ engine \in {FreshEngine(registered) : registered \in SUBSET (1..MaxVersion)}
  /\ storage = FreshStorage
  /\ disk = EmptyDisk

NextMigrate ==
  \/ \E target \in 1..MaxVersion : MigrateCall(target)
  \/ InvokeMigration
  \/ MigrationReturns
  \/ MigrationThrows
  \/ PersistVersion
  \/ PersistFails

SpecMigrate == InitMigrate /\ [][NextMigrate]_vars

\* mount(base, driver) with a driver of its own, and unmount(base).
Mount(base) ==
  /\ storage.calls < MaxMounts
  /\ storage' = mount([storage EXCEPT !.calls = @ + 1, !.drivers = @ + 1],
                      base, storage.drivers + 1)
  /\ UNCHANGED <<queueVars, engine, disk>>

Unmount(base) ==
  /\ storage.calls < MaxMounts
  /\ storage' = unmount([storage EXCEPT !.calls = @ + 1], base)
  /\ UNCHANGED <<queueVars, engine, disk>>

\* A storage whose mounts come and go.
InitMount ==
  /\ options = [batchSize |-> 2, maxQueueSize |-> 3, mergeUpdates |-> TRUE]
  /\ QueueConstructed({SyncMethods}, {FALSE})
  /\ engine = FreshEngine({})
  /\ storage = FreshStorage
  /\ disk = EmptyDisk

NextMount ==
  \/ \E base \in MountInputs : Mount(base)
  \/ \E base \in MountInputs : Unmount(base)

SpecMount == InitMount /\ [][NextMount]_vars

\* setItem and setItemSync, removeItem and removeItemSync of fs-lite.
WriteFile(key) ==
  /\ disk' = writeFile(disk, r(key))
  /\ UNCHANGED <<queueVars, engine, storage>>

Unlink(key) ==
  /\ disk' = unlink(disk, r(key))
  /\ UNCHANGED <<queueVars, engine, storage>>

\* An fs-lite driver whose files come and go.
InitFs ==
  /\ options = [batchSize |-> 2, maxQueueSize |-> 3, mergeUpdates |-> TRUE]
  /\ QueueConstructed({SyncMethods}, {FALSE})
  /\ engine = FreshEngine({})
  /\ storage = FreshStorage
  /\ disk = EmptyDisk

NextFs ==
  \/ \E key \in FsKeys : WriteFile(key)
  \/ \E key \in FsKeys : Unlink(key)

SpecFs == InitFs /\ [][NextFs]_vars

(* ----------------------------- properties ------------------------------ *)

\* The operations a flush in flight has drained.
TaskOps == task.setOperations \o task.removeOperations
\* The step is a setItem or removeItem call on the key.
EnqueueOn(key) == (\E v \in Values : SetItem(key, v)) \/ RemoveItem(key)

\* C1: read-your-writes before flush.  When setItem(k, v) is called and no
\* flush runs in that call, getItem(k) returns v right after the call.
C1_ReadYourWritesBeforeFlush ==
  [][\A k \in Keys, v \in Values :
       (SetItem(k, v) /\ hist'.flushes = hist.flushes) => getItem(k)' = v]_vars

\* C2: read-your-writes while a flush is in flight.  A set that the flush in
\* flight has drained and whose write on the inner driver has not completed,
\* with no later operation queued for its key, is what getItem, hasItem and
\* getKeys report.
C2_ReadYourWritesDuringFlush ==
  \A call \in driver.calls : \A i \in 1..Len(call.ops) :
    LET op == call.ops[i]
    IN  (/\ call.flush = task.no
         /\ op.type = "set"
         /\ ~QueueHas(context.queue, op.key))
        => /\ getItem(op.key) = op.value
           /\ hasItem(op.key)
           /\ op.key \in getKeys(<<>>)

\* What a flush() call made while a flush is in flight does, and what the
\* inner driver receives: the call starts no new flush and hands nothing to
\* the inner driver, its promise is the one of the flush in flight and is
\* pending as long as that flush is; no operation is ever received twice, and
\* when the promise resolves every operation the flush drained has been
\* received exactly once.  live restricts the calls the statement covers.
JoinsFlushInFlight(live) ==
  /\ \A c \in Callers :
       (Flush(c) /\ context.flushing /\ live)
       => /\ hist'.flushes = hist.flushes
          /\ hist'.received = hist.received
          /\ driver' = driver
          /\ callers'[c].state = "pending"
          /\ callers'[c].promise = context.pendingFlush
  /\ \A c \in Callers :
       callers'[c].state = "pending"
       => context'.flushing /\ callers'[c].promise = context'.pendingFlush
  /\ \A id \in DOMAIN hist.received : hist'.received[id] <= 1
  /\ \A c \in Callers :
       (callers[c].state = "pending" /\ callers'[c].state = "resolved")
       => \A i \in 1..Len(TaskOps) : hist'.received[TaskOps[i].id] = 1

OneFlushInFlight ==
  /\ \A call \in driver.calls : context.flushing /\ call.flush = task.no
  /\ context.flushing <=> task.phase # "idle"
  /\ context.flushing <=> context.pendingFlush # 0
C5_FlushResolvedMeansWritten ==
  \A c \in Callers :
    callers[c].state = "resolved"
    => /\ callers[c].snap \cap QueueIds(context.queue) = {}
       /\ callers[c].snap \subseteq hist.written

\* C6: when dispose() has resolved, the queue is empty and nothing that was
\* accepted is left unwritten.
C6_DisposeFlushesEverything ==
  disposal.state = "done"
  => /\ Len(context.queue) = 0
     /\ task.phase = "idle"
     /\ driver.calls = {}

\* C7: eventual persistence.  In no reachable state of a driver that is not
\* disposed is the queue non-empty with neither a flush in flight nor a
\* flush timer pending; and, when timers fire and the calls on the inner
\* driver complete, every operation in the queue is eventually written (or
\* replaced in the queue by a later operation on its key), unless the driver
\* is disposed first.
NoIdleBacklog ==
  (~context.disposed /\ Len(context.queue) > 0)
  => (context.flushing \/ context.flushTimer)
C7_EventualPersistence ==
  /\ []NoIdleBacklog
  /\ \A id \in 1..MaxCalls :
       (id \in QueueIds(context.queue))
       ~> (id \in hist.written \/ id \in hist.merged \/ context.disposed)

\* An operation was queued while a flush was in flight or just after it,
\* and the timer alone brought both to the inner driver.
C7_Witness ==
  /\ options.maxQueueSize = 3
  /\ hist.calls = 2 /\ hist.flushes = 2 /\ hist.written = {1, 2}
  /\ Len(context.queue) = 0 /\ ~context.flushing /\ disposal.state = "idle"

\* C8: queue merge.  With mergeUpdates enabled an operation replaced in the
\* queue by a later one on its key never reaches the inner driver, no
\* operation reaches it twice, one flush carries at most one operation per
\* key, and when the flush completes each operation it drained has reached
\* the inner driver exactly once.
C8_MergeWritesLastValueOnce ==
  [][options.mergeUpdates =>
       /\ \A id \in hist'.merged : hist'.received[id] = 0
       /\ \A id \in DOMAIN hist.received : hist'.received[id] <= 1
       /\ \A i, j \in 1..Len(TaskOps') : TaskOps'[i].key = TaskOps'[j].key => i = j
       /\ (context.flushing /\ ~context'.flushing)
          => \A i \in 1..Len(TaskOps) : /\ hist'.received[TaskOps[i].id] = 1
                                        /\ TaskOps[i].id \in hist'.written
    ]_vars

\* set(k, 1) then set(k, 2) were the only calls before one flush, which has
\* completed: the second operation alone was received, and k holds 2.
C8_Witness ==
  /\ options.mergeUpdates
  /\ hist.merged = {1} /\ hist.received[1] = 0 /\ hist.received[2] = 1
  /\ hist.written = {2} /\ hist.flushes = 1 /\ ~context.flushing
  /\ \E k \in Keys : driver.data[k] = 2

\* What queueOperation does with a setItem or removeItem call when
\* mergeUpdates is disabled: for a key that has an operation in the queue,
\* the operation of the call is neither queued nor flushed and the one that
\* was in the queue is, unchanged, still in the queue or in the flush the
\* call started; for a key that has none, and under the condition accepts,
\* the operation of the call is in the queue or in the flush the call
\* started.
KeepsFirstOperation(accepts) ==
  ~options.mergeUpdates =>
    \A k \in Keys :
      EnqueueOn(k) =>
        IF QueueHas(context.queue, k)
        THEN /\ hist'.calls \notin QueueIds(context'.queue) \cup QueueIds(TaskOps')
             /\ hist'.received[hist'.calls] = 0
             /\ QueueGet(context.queue, k)
                  \in Range(context'.queue) \cup Range(TaskOps')
        ELSE accepts =>
               hist'.calls \in QueueIds(context'.queue) \cup QueueIds(TaskOps')

C10_NoMergePreservesAllUpdates ==
  [][(~options.mergeUpdates /\ ~context.disposed) =>
       \A k \in Keys :
         EnqueueOn(k) =>
           hist'.calls \in QueueIds(context'.queue) \cup QueueIds(TaskOps')]_vars

\* C11: operations are flushed in enqueue order.  Of two operations drained
\* by the flush in flight, the one with the later timestamp has not been
\* handed to the inner driver as long as the one with the earlier timestamp
\* has not, whether they are sets or removes.
C11_FlushedInEnqueueOrder ==
  \A i, j \in 1..Len(TaskOps) :
    (/\ TaskOps[i].timestamp < TaskOps[j].timestamp
     /\ hist.received[TaskOps[j].id] > 0)
    => hist.received[TaskOps[i].id] > 0

\* C12: maxQueueSize is the maximum queue size.  The queue never holds more
\* than maxQueueSize operations, a flush in flight or not.
C12_QueueSizeAtMostMax == Len(context.queue) <= options.maxQueueSize

\* C13: a flush starts as soon as the queue reaches batchSize.  When, on a
\* driver that is not disposed and has no flush in flight, a setItem or
\* removeItem call leaves the queue with batchSize operations or more, then
\* in that same step a flush has started, the whole queue is drained into it
\* and no flush timer is pending.
SizeAfterStore(k) == Len(context.queue) + IF QueueHas(context.queue, k) THEN 0 ELSE 1
C13_BatchSizeFlushesAtOnce ==
  [][\A k \in Keys :
       (/\ EnqueueOn(k)
        /\ ~context.disposed /\ ~context.flushing
        /\ SizeAfterStore(k) >= options.batchSize)
       => /\ hist'.flushes = hist.flushes + 1
          /\ context'.flushing
          /\ context'.queue = <<>>
          /\ Len(TaskOps') = SizeAfterStore(k)
          /\ ~context'.flushTimer]_vars

\* Two calls on two keys, the second of which reached batchSize (below
\* maxQueueSize): both operations are in the flush it started, the timer the
\* first call set is gone.
C13_Witness ==
  /\ options.maxQueueSize = 3
  /\ hist.calls = 2 /\ hist.flushes = 1 /\ hist.written = {}
  /\ context.flushing /\ ~context.flushTimer /\ Len(TaskOps) = 2
  /\ disposal.state = "idle"
  /\ \A c \in Callers : callers[c].state = "idle"

\* C14: a failed batch falls back to per-item writes.  When the setItems
\* call of the flush in flight fails, the flush goes on and, in that same
\* step, hands every set operation of the batch to the inner driver once
\* more, each through a setItem call of its own.
C14_BatchFailureFallsBack ==
  [][\A call \in driver.calls :
       (/\ DriverReject(call)
        /\ call.method = "setItems"
        /\ call.flush = task.no)
       => /\ context'.flushing /\ task'.no = task.no
          /\ \A i \in 1..Len(call.ops) :
               /\ Call("setItem", <<call.ops[i]>>, task.no) \in driver'.calls
               /\ hist'.received[call.ops[i].id]
                    = hist.received[call.ops[i].id] + 1]_vars

\* A batch of two sets was handed over twice, by setItems and then one by
\* one, and both are written: the flush is over.
C14_Witness ==
  /\ driver.setItems
  /\ hist.flushes = 1 /\ ~context.flushing /\ driver.calls = {}
  /\ Cardinality({id \in hist.written : hist.received[id] = 2}) = 2

\* C15: one failing item does not block the rest of a flushed batch.  When
\* a flush ends, whether or not a write of it failed, every operation it
\* drained, sets and removes alike, has been handed to the inner driver.
C15_FailedItemDoesNotBlockBatch ==
  [][(context.flushing /\ ~context'.flushing)
     => \A i \in 1..Len(TaskOps) : hist'.received[TaskOps[i].id] >= 1]_vars

\* A call that enqueues, or a flush by flush(), flushSync() or the timer.
EnqueueOrFlush ==
  \/ \E k \in Keys, v \in Values : SetItem(k, v) \/ SetItemRaw(k, v)
  \/ \E k \in Keys : RemoveItem(k)
  \/ \E items \in ItemLists : SetItems(items)
  \/ \E c \in Callers : Flush(c)
  \/ FlushSync
  \/ TimerFire

\* C16: a disposed context ignores writes.  Once the context is marked
\* disposed, setItem, setItems, setItemRaw and removeItem leave the queue as
\* it is and set no timer, and neither they nor flush(), flushSync() or a
\* late timer start a flush or hand anything to the inner driver.
C16_DisposedIgnoresWrites ==
  [][(context.disposed /\ EnqueueOrFlush)
     => /\ context'.queue = context.queue
        /\ context'.flushTimer => context.flushTimer
        /\ context'.flushing = context.flushing
        /\ context'.disposed
        /\ task' = task
        /\ driver' = driver
        /\ hist'.flushes = hist.flushes
        /\ hist'.received = hist.received
        /\ hist'.written = hist.written]_vars

\* dispose() has resolved on an empty queue and the two calls after it, an
\* enqueue among them (only an enqueue reads the clock), left no trace.
C16_Witness ==
  /\ context.disposed /\ disposal.state = "done"
  /\ hist.calls = MaxCalls /\ now = 1
  /\ context.queue = <<>> /\ ~context.flushTimer
  /\ hist.flushes = 0 /\ driver.calls = {}

\* C17: dispose() cancels flush scheduling.  Once dispose() has resolved, no
\* flush timer is pending on the queue context.
C17_DisposeCancelsTimer == disposal.state = "done" => ~context.flushTimer

\* The value getItems reports for a key.
ValueOf(results, key) ==
  {results[i].value : i \in {j \in 1..Len(results) : results[j].key = key}}

\* What the value reads of the driver answer for a key.
ValueReads(key) ==
  {getItem(key), getItemRaw(key), getItemSync(key), getItemRawSync(key)}
    \cup ValueOf(getItems(<<key>>), key)

\* C18: reads consult the pending queue first.  For hasItem, getItem,
\* getItemRaw, getItems and their sync forms, a key with a queued remove is
\* absent, a key with a queued set has its pending value, and a key with
\* no queued operation has what the inner driver answers.
C18_ReadsConsultQueueFirst ==
  \A key \in Keys :
    IF QueueHas(context.queue, key)
    THEN LET queued == QueueGet(context.queue, key)
         IN  IF queued.type = "remove"
             THEN /\ ~hasItem(key) /\ ~hasItemSync(key)
                  /\ ValueReads(key) = {Null}
             ELSE /\ hasItem(key) /\ hasItemSync(key)
                  /\ ValueReads(key) = {queued.value}
    ELSE /\ hasItem(key) = DriverHasItem(driver, key)
         /\ hasItemSync(key) = DriverHasItem(driver, key)
         /\ ValueReads(key) = {DriverGetItem(driver, key)}

\* Key has a queued operation of this type.
QueuedAs(type, key) ==
  QueueHas(context.queue, key) /\ QueueGet(context.queue, key).type = type

\* C19: getKeys(base) and getKeysSync(base) return the keys of the inner
\* driver united with the keys that have a queued set, minus the keys that
\* have a queued remove, and every returned key lies under the base.
C19_KeysUnionMinusRemovedUnderBase ==
  \A base \in Bases :
    LET expected == {k \in Keys :
                       /\ StartsWith(k, base)
                       /\ DriverHasItem(driver, k) \/ QueuedAs("set", k)
                       /\ ~QueuedAs("remove", k)}
    IN  /\ getKeys(base) = expected
        /\ getKeysSync(base) = expected

\* The lists getItems is asked for.
KeyLists == {<<k>> : k \in Keys} \cup {<<k, l>> : k, l \in Keys}

\* C20: batch reads preserve the request order.  getItems returns one
\* result per requested key, in the order of the list it was given.
C20_GetItemsKeepsRequestOrder ==
  \A items \in KeyLists :
    LET results == getItems(items)
    IN  /\ Len(results) = Len(items)
        /\ \A i \in 1..Len(items) : results[i].key = items[i]

\* The call threw; the call returned normally.
Threw == hist'.errors = hist.errors + 1
Returned == hist'.errors = hist.errors

\* A synchronous write left the queue, the timer and the flush machinery
\* alone, and made one call on the inner driver if it returned.
BypassedQueue ==
  /\ context' = context
  /\ task' = task
  /\ driver'.calls = driver.calls
  /\ hist'.flushes = hist.flushes
  /\ hist'.received = hist.received
  /\ Threw \/ Returned
  /\ Returned => hist'.direct = hist.direct + 1
  /\ Threw => hist'.direct = hist.direct /\ driver' = driver

Lacks(method) == method \notin driver.sync

\* The synchronous writes, getMetaSync, getKeysSync and clearSync fail when
\* the inner driver lacks the method, whatever is queued.
WritesFailWithoutInnerMethod ==
  /\ \A k \in Keys, v \in Values :
       /\ (SetItemSync(k, v) /\ Lacks("setItemSync")) => Threw
       /\ (SetItemRawSync(k, v) /\ Lacks("setItemRawSync")) => Threw
  /\ \A k \in Keys : (RemoveItemSync(k) /\ Lacks("removeItemSync")) => Threw
  /\ \A base \in Bases : (ClearSync(base) /\ Lacks("clearSync")) => Threw
  /\ Threw => /\ context' = context /\ driver' = driver /\ task' = task

ListingFailsWithoutInnerMethod ==
  /\ \A key \in Keys : Lacks("getMetaSync") => getMetaSyncThrows(key)
  /\ \A base \in Bases : Lacks("getKeysSync") => getKeysSyncThrows(base)

\* C22 as stated: every synchronous method fails when the inner driver
\* lacks its twin, whatever the queue contains.
C22_SyncFailsWithoutInnerMethod ==
  /\ [](/\ ListingFailsWithoutInnerMethod
        /\ \A key \in Keys :
             /\ Lacks("hasItemSync") => hasItemSyncThrows(key)
             /\ Lacks("getItemSync") => getItemSyncThrows(key)
             /\ Lacks("getItemRawSync") => getItemRawSyncThrows(key))
  /\ [][WritesFailWithoutInnerMethod]_vars

\* C22: every synchronous method fails when the inner driver lacks its
\* twin, except that hasItemSync, getItemSync and getItemRawSync answer from
\* the queue, without an error, for a key that has a queued operation.
C22_SyncFailsUnlessAnsweredFromQueue ==
  /\ [](/\ ListingFailsWithoutInnerMethod
        /\ \A key \in Keys :
             IF QueueHas(context.queue, key)
             THEN /\ ~hasItemSyncThrows(key)
                  /\ ~getItemSyncThrows(key)
                  /\ ~getItemRawSyncThrows(key)
             ELSE /\ Lacks("hasItemSync") => hasItemSyncThrows(key)
                  /\ Lacks("getItemSync") => getItemSyncThrows(key)
                  /\ Lacks("getItemRawSync") => getItemRawSyncThrows(key))
  /\ [][WritesFailWithoutInnerMethod]_vars

\* Over an inner driver without synchronous methods two synchronous writes
\* have thrown while an operation was queued: the reads of its key answer,
\* those of the other key throw.
C22_Witness ==
  /\ driver.sync = {} /\ hist.errors = 2 /\ hist.direct = 0
  /\ Len(context.queue) = 1
  /\ \E k, l \in Keys : ~getItemSyncThrows(k) /\ getItemSyncThrows(l)

\* C23: flushSync() throws when the queue holds operations and the inner
\* driver has neither setItemSync nor removeItemSync to apply them with.
C23_FlushSyncThrowsWithoutSyncWrites ==
  [][(/\ FlushSync
      /\ context.queue # <<>>
      /\ Lacks("setItemSync") /\ Lacks("removeItemSync"))
     => Threw]_vars

\* C24: flushSync() blocks until all queued operations are written.  When
\* it returns normally on a driver that is not disposed, every operation
\* that was queued at the call is written to the inner driver, also when an
\* asynchronous flush is in flight.
C24_FlushSyncWritesWholeQueue ==
  [][(FlushSync /\ ~context.disposed /\ Returned)
     => QueueIds(context.queue) \subseteq hist'.written]_vars

(* ---------------------- properties of migrate() ----------------------- *)

\* The versions of the events of one kind, in the order of the log.
VersionsOf(log, name) ==
  LET events == SelectSeq(log, LAMBDA ev : ev.event = name)
  IN  [i \in 1..Len(events) |-> events[i].v]

\* The members of a set of numbers in ascending order.
AscendingSeq(S) ==
  [i \in 1..Cardinality(S) |->
     CHOOSE x \in S : Cardinality({y \in S : y < x}) = i - 1]

\* A migrate() call that found work to do has resolved.
RunSucceeded ==
  /\ engine.pc = "idle" /\ engine.outcome = "resolved"
  /\ engine.current < engine.target

\* C25: migrate() with persisted version c below target t runs exactly the
\* functions registered for the versions c+1..t, in ascending order, each
\* returning before the next is invoked, skips versions without a function
\* and leaves the persisted version at t.
C25_RunsMissingMigrationsInOrder ==
  RunSucceeded =>
    /\ VersionsOf(engine.log, "invoke")
         = AscendingSeq(engine.registered
                          \cap ((engine.current + 1)..engine.target))
    /\ \A i \in 1..Len(engine.log) :
         engine.log[i].event = "invoke"
         => /\ i < Len(engine.log)
            /\ engine.log[i + 1].event = "return"
            /\ engine.log[i + 1].v = engine.log[i].v
    /\ engine.version = engine.target

\* With functions registered for 1 and 3, a storage at version 1 has been
\* migrated to 3: only the function of 3 ran.
C25_Witness ==
  /\ RunSucceeded
  /\ engine.registered = {1, 3} /\ engine.current = 1 /\ engine.target = 3
  /\ VersionsOf(engine.log, "invoke") = <<3>>

\* A migrate() call was rejected with the error of the function of a version.
FunctionFailed ==
  /\ engine.pc = "idle" /\ engine.outcome = "rejected"
  /\ Len(engine.error) = 2 /\ engine.error[1] = "migration"

\* The last version below the failed one whose function returned in the
\* run, or the version the run started from.
LastCompleted ==
  LET done == {u \in engine.registered :
                 engine.current < u /\ u < engine.error[2]}
  IN  IF done = {} THEN engine.current
      ELSE CHOOSE u \in done : \A w \in done : w <= u

\* C26: a failed migration can be resumed.  When the function of a version
\* throws, the persisted version is that of the last function that
\* returned, and no function that has returned ever runs again.
C26_FailureResumesWithoutRerun ==
  /\ \A v \in 1..MaxVersion : engine.completed[v] <= 1
  /\ FunctionFailed => CurrentVersion(engine) = LastCompleted

\* The call did nothing: no hook, no function, the version and the data as
\* they were, and the promise resolved.
NothingRan ==
  /\ engine'.log = <<>>
  /\ engine'.version = engine.version
  /\ engine'.completed = engine.completed
  /\ engine'.pc = "idle" /\ engine'.outcome = "resolved"

\* C27: with the persisted version at or above the target, migrate() is a
\* no-op: no function runs, no hook is called and the version is left as
\* it is, not lowered to the target.
C27_NoOpAtOrAboveTarget ==
  [][\A t \in 1..MaxVersion :
       (MigrateCall(t) /\ CurrentVersion(engine) >= t) => NothingRan]_vars

\* migrate() with target 2 has returned on a storage at version 3.
C27_Witness ==
  /\ engine.pc = "idle" /\ engine.outcome = "resolved"
  /\ engine.version = 3 /\ engine.target = 2 /\ engine.log = <<>>

\* C28: migrate() is idempotent after success.  Called again with the
\* target of a run that resolved, it runs no function and no hook and
\* leaves the data and the version as they are.
C28_IdempotentAfterSuccess ==
  [][\A t \in 1..MaxVersion :
       (/\ MigrateCall(t)
        /\ engine.outcome = "resolved"
        /\ engine.target = t)
       => NothingRan]_vars

\* The first call migrated the storage to 3 with the functions of 2 and 3,
\* the second call with the same target has returned.
C28_Witness ==
  /\ engine.runs = 2 /\ engine.pc = "idle" /\ engine.outcome = "resolved"
  /\ engine.target = 3 /\ engine.version = 3 /\ engine.log = <<>>
  /\ engine.completed = [v \in 1..MaxVersion |-> IF v \in {2, 3} THEN 1 ELSE 0]

\* The places of the events of one kind in the log.
PlacesOf(log, name) == {i \in 1..Len(log) : log[i].event = name}

\* A migrate() call was rejected.
RunFailed == engine.pc = "idle" /\ engine.outcome = "rejected"

\* C29: when a migration function throws, or persisting the target fails,
\* onMigrationError is called exactly once, with the error, the version
\* read at the start of the run and the target; afterMigration is not
\* called, the persisted version is not advanced, and the error thrown is
\* the one the caller of migrate() gets.
C29_ErrorHookThenRethrow ==
  RunFailed =>
    /\ PlacesOf(engine.log, "onMigrationError") = {Len(engine.log)}
    /\ engine.log[Len(engine.log)]
         = Event("onMigrationError", engine.error[2], engine.current, engine.target)
    /\ \/ /\ engine.error = MigrationError(engine.error[2])
          /\ engine.log[Len(engine.log) - 1].event = "invoke"
          /\ engine.log[Len(engine.log) - 1].v = engine.error[2]
       \/ /\ engine.error = PersistError(engine.target)
          /\ engine.log[Len(engine.log) - 1].event # "invoke"
    /\ PlacesOf(engine.log, "afterMigration") = {}
    /\ PlacesOf(engine.log, "persist") = {}
    /\ CurrentVersion(engine) = engine.current
    /\ engine.current < engine.target

\* The function of 3 threw in a run from version 1 to 3: the hook got 1 and 3.
C29_Witness ==
  /\ RunFailed /\ engine.error = MigrationError(3)
  /\ engine.current = 1 /\ engine.target = 3 /\ engine.version = 1
  /\ VersionsOf(engine.log, "return") = <<2>>

\* C30: in a run of migrate() that succeeds, beforeMigration(current,
\* target) is called once, before any migration function, and
\* afterMigration(current, target) once, after the last function has
\* returned and the target is persisted; both get the version read at the
\* start of the run.
C30_HooksBracketTheRun ==
  RunSucceeded =>
    /\ PlacesOf(engine.log, "beforeMigration") = {1}
    /\ engine.log[1] = Event("beforeMigration", 0, engine.current, engine.target)
    /\ PlacesOf(engine.log, "afterMigration") = {Len(engine.log)}
    /\ engine.log[Len(engine.log)]
         = Event("afterMigration", 0, engine.current, engine.target)
    /\ PlacesOf(engine.log, "persist") = {Len(engine.log) - 1}
    /\ engine.log[Len(engine.log) - 1].v = engine.target
    /\ engine.version = engine.target
    /\ PlacesOf(engine.log, "onMigrationError") = {}

\* A run from version 1 to 3 with two functions has succeeded.
C30_Witness ==
  /\ RunSucceeded /\ engine.current = 1 /\ engine.target = 3
  /\ VersionsOf(engine.log, "return") = <<2, 3>>
  /\ Len(engine.log) = 7

\* C31: the persisted schema version advances monotonically.  Whatever the
\* calls of migrate(), their targets and their outcomes, no step lowers the
\* version stored under __storage_version__ (0 while the key is absent).
C31_VersionNeverDecreases ==
  [][CurrentVersion(engine') >= CurrentVersion(engine)]_vars

\* The storage was migrated to 3 and migrate() was called twice more, the
\* last time with a lower target: three calls, the version still 3.
C31_Witness ==
  /\ engine.runs = 3 /\ engine.version = 3
  /\ engine.target < 3 /\ engine.pc = "idle"
  /\ \E v \in 1..MaxVersion : engine.completed[v] > 0

\* The bases a driver is mounted at, the root aside, that are a prefix of
\* the key.
MountedPrefixes(key) ==
  {base \in MountBases \ {<<>>} :
     storage.mounts[base] # NoDriver /\ StartsWith(key, base)}

\* C32: longest-prefix routing.  After any sequence of mount and unmount
\* calls, a key resolves to the mount whose base is the longest mounted
\* prefix of the key, and to the root mount when no mounted base is a
\* prefix of it.
C32_LongestPrefixRouting ==
  \A key \in ResolveKeys :
    LET found == getMount(storage, key)
    IN  /\ found.driver = storage.mounts[found.base]
        /\ IF MountedPrefixes(key) = {}
           THEN found.base = <<>>
           ELSE /\ found.base \in MountedPrefixes(key)
                /\ \A base \in MountedPrefixes(key) : Len(base) <= Len(found.base)

\* "c" was mounted before "c:a": c:a:v resolves to c:a:, c:u to c: and
\* o:d to the root.
C32_Witness ==
  /\ storage.mountpoints = <<<<"c", ":", "a", ":">>, <<"c", ":">>>>
  /\ storage.mounts[<<"c", ":">>] < storage.mounts[<<"c", ":", "a", ":">>]
  /\ getMount(storage, <<"c", ":", "a", ":", "v">>).base = <<"c", ":", "a", ":">>
  /\ getMount(storage, <<"c", ":", "u">>).base = <<"c", ":">>
  /\ getMount(storage, <<"o", ":", "d">>).base = <<>>

\* C33: per-key last-write-wins across batches.  With mergeUpdates enabled
\* and no synchronous write, whatever setItem and removeItem calls and
\* flushes came before, operations enqueued during a flush included: once
\* the queue is empty and no flush is in flight, the inner driver holds for
\* every key what the last operation enqueued for the key leaves it with.
C33_LastWriteWinsAcrossBatches ==
  (/\ options.mergeUpdates
   /\ context.queue = <<>> /\ ~context.flushing /\ driver.calls = {})
  => \A k \in Keys : driver.data[k] = hist.last[k]

\* Three operations on one key went to the inner driver in two flushes,
\* the later one enqueued while the first flush was in flight and replaced
\* in the queue before it was flushed.
C33_Witness ==
  /\ options.mergeUpdates
  /\ context.queue = <<>> /\ ~context.flushing /\ driver.calls = {}
  /\ hist.flushes = 2 /\ hist.calls = 3 /\ hist.merged = {2}
  /\ hist.written = {1, 3}
  /\ \E k \in Keys : driver.data[k] = 2 /\ hist.last[k] = 2

\* A flush starts in the step, a flush is in flight before and after the
\* step, a flush ends in the step.
FlushStarts == hist'.flushes = hist.flushes + 1
FlushStaysInFlight ==
  context.flushing /\ context'.flushing /\ task'.no = task.no
FlushEnds == context.flushing /\ ~context'.flushing

\* The flush that starts takes every queued operation and leaves the queue
\* empty.
DrainsWholeQueue ==
  FlushStarts =>
    /\ context'.queue = <<>>
    /\ QueueIds(context.queue) \ hist'.merged \subseteq QueueIds(TaskOps')
\* While the flush is in flight its batch stays as it is; the operations
\* enqueued meanwhile are queued, not handed to the inner driver, and no
\* key leaves the queue.
BatchIsClosed ==
  FlushStaysInFlight =>
    /\ TaskOps' = TaskOps
    /\ QueueIds(context'.queue) \cap QueueIds(TaskOps') = {}
    /\ QueueKeys(context.queue) \subseteq QueueKeys(context'.queue)
    /\ \A id \in QueueIds(context'.queue) : hist'.received[id] = 0

StoredKeys == {key \in FsKeys : r(key) \in disk.files}
ListedKeys(paths) == {normalizeKey(path) : path \in paths}
\* The separators of a key, and the key after the base.
SeparatorCount(key) == Cardinality({i \in 1..Len(key) : key[i] = ":"})
AfterBase(key, base) == SubSeq(key, Len(base) + 1, Len(key))

SyncWriteOverQueuedSet(k) ==
  /\ QueueHas(context.queue, k) /\ QueueGet(context.queue, k).type = "set"
  /\ Returned
  /\ SetItemSync(k, 2) \/ SetItemRawSync(k, 2) \/ RemoveItemSync(k)

\* C36: the most recent write wins across the sync and the async path.
\* When setItemSync(k, v2) or removeItemSync(k) is called while an earlier
\* setItem(k, v1) is queued, getItemSync(k) answers with the synchronous
\* write right afterwards, and the queued set never reaches the inner
\* driver after it.
C36_SyncWriteWinsOverQueuedSet ==
  /\ [][\A k \in Keys :
          SyncWriteOverQueuedSet(k) => getItemSync(k)' = driver'.data[k]]_vars
  /\ [](hist.overtaken \cap hist.written = {})

\* The sets of the key enqueued by call number at or before, that are
\* queued or on their way to the inner driver.
PendingSets(k, at) ==
  {op \in Range(context.queue) \cup Range(task.setOperations)
        \cup UNION {Range(call.ops) : call \in driver.calls} :
     /\ op.key = k /\ op.type = "set" /\ op.id <= at
     /\ op.id \notin hist.written}
\* Nothing written under the base by call number at or before is left: not
\* in the inner driver, not visible to a read, not on its way.
ClearedFor(base, at) ==
  \A k \in Keys :
    StartsWith(k, base) =>
      /\ driver.data[k] = Null
      /\ PendingSets(k, at) = {}
      /\ QueueHas(context.queue, k) /\ QueueGet(context.queue, k).id <= at
         => /\ ~hasItem(k)
            /\ getItem(k) = Null
            /\ k \notin getKeys(base)

\* C37: clear is final for earlier writes.  When clear(base) resolves and
\* when clearSync(base) returns, no key under base written before the call
\* is in the inner driver, visible through hasItem, getItem or getKeys, or
\* still to be written by a later flush; over an inner driver without
\* clear and with a flush in flight at the call as well.
C37_ClearIsFinal ==
  [][/\ ClearResume => ClearedFor(clearing.base, clearing.at)'
     /\ \A base \in Bases :
          (ClearSync(base) /\ Returned) => ClearedFor(base, hist.calls)']_vars

\* The operations a step may lose: those queued or in the batch of the
\* flush in flight before the step, and those the step accepts (with
\* mergeUpdates every operation of a call is stored).
AtStake ==
  QueueIds(context.queue) \cup QueueIds(TaskOps)
    \cup {id \in (hist.calls + 1)..hist'.calls : options.mergeUpdates}
\* After the step the operation is still queued, still in the batch of the
\* flush in flight, replaced by a later operation on its key, or it has been
\* passed to a write call of the inner driver.
Kept(id) ==
  \/ id \in QueueIds(context'.queue)
  \/ id \in QueueIds(TaskOps')
  \/ id \in hist'.merged
  \/ hist'.received[id] > 0

\* C38: no silent loss in a flush.  Every operation an asynchronous flush
\* removes from the queue is passed to a write call of the inner driver
\* (setItems, setItem, setItemRaw or removeItem): no accepted operation
\* leaves the queue and the batch of its flush without a write attempt,
\* whatever its value and whichever optional write methods the inner driver
\* has.
C38_NoSilentLossInFlush == [][\A id \in AtStake : Kept(id)]_vars

\* The queue is not locked: flushing is false, pendingFlush is cleared, and
\* a trigger that finds operations queued on a driver that is not disposed
\* starts a flush.
NotLocked ==
  /\ ~context.flushing
  /\ context.pendingFlush = 0
  /\ Len(context.queue) > 0 /\ ~context.disposed
       => flushQueue(World).hist.flushes = hist.flushes + 1
\* A write of the inner driver has failed: the operation was handed to the
\* driver, its call is over and the write has not landed.
FailedWrites ==
  {id \in 1..MaxCalls :
     /\ hist.received[id] > 0
     /\ id \notin hist.written
     /\ \A call \in driver.calls : id \notin QueueIds(call.ops)}

\* C39: a failed flush does not lock the queue.  Once a flush has ended,
\* whether the inner driver succeeded or threw, on the asynchronous path or
\* in flushSync, flushing is false and pendingFlush is cleared, so that a
\* later trigger can start a new flush.
C39_FailedFlushDoesNotLockQueue == task.phase = "idle" => NotLocked
\* An asynchronous flush has been rejected and a flushSync has thrown; the
\* queue is open.
C39_Witness ==
  /\ hist.errors = 1
  /\ Cardinality(FailedWrites) = 2
  /\ hist.flushes = 1
  /\ task.phase = "idle" /\ NotLocked

\* dispose() has returned: its promise is resolved, or rejected with the
\* error of the flush it awaited.
DisposeReturned == disposal.state \in {"done", "rejected"}

\* C40: dispose() completes its teardown even if the final flush fails.
\* When the inner driver rejects a write of the flush dispose() performs,
\* the context is still marked disposed and the dispose hook of the inner
\* driver is still called.
C40_DisposeCompletesTeardown ==
  DisposeReturned => context.disposed /\ driver.disposed
====
